---- MODULE Spec2Model ----
(***************************************************************************)
(* The transposition table of src/src/tt.cpp: TTEntry::save,               *)
(* TTEntry::relative_age, TranspositionTable::resize, clear, probe,        *)
(* hashfull.                                                               *)
(*                                                                         *)
(* An entry keeps the widths of the C++ fields (uint16_t key16, uint8_t    *)
(* depth8, uint8_t genBound8, 16-bit move16, int16_t value16, int16_t      *)
(* eval16).  A 64-bit fingerprint is the record [hi, lo]: hi is its top    *)
(* HiBits bits, lo its low 16 bits, the bits between them are zero in the  *)
(* fingerprints the model enumerates.  The byte count of one megabyte is   *)
(* scaled down to MbBytes so that a table holds a handful of clusters, and *)
(* the 1000 clusters that hashfull samples to HashfullSample.              *)
(*                                                                         *)
(* Spec, SpecSave, SpecRepl, SpecFull and SpecAge run the operations one   *)
(* after the other; SpecRace interleaves the field writes of the saves of  *)
(* two threads.                                                            *)
(***************************************************************************)
EXTENDS Integers, Naturals, Sequences, FiniteSets, TLC

(***************************************************************************)
(* Bounds of the model.                                                    *)
(***************************************************************************)
HiBits == 2
MbBytes == 48
MaxMb == 2
MaxThreads == 2
MaxSaves == 1
MaxSavesRepl == 4
MaxSearches == 1
MaxClears == 2
HashfullSample == 4

(***************************************************************************)
(* Program constants.                                                      *)
(***************************************************************************)
ClusterSize == 3
SizeofTTEntry == 10
ClusterPadding == 2
SizeofCluster == ClusterSize * SizeofTTEntry + ClusterPadding
GENERATION_BITS == 3
GENERATION_DELTA == 2 ^ GENERATION_BITS
GENERATION_CYCLE == 255 + GENERATION_DELTA
GENERATION_MASK == (255 * 2 ^ GENERATION_BITS) % 256
DEPTH_ENTRY_OFFSET == -3
BOUND_NONE == 0
BOUND_UPPER == 1
BOUND_LOWER == 2
BOUND_EXACT == 3
MOVE_NONE == 0

(***************************************************************************)
(* Integer conversions and bit operations of the C++ code.                 *)
(***************************************************************************)
RECURSIVE BitAnd(_, _)
BitAnd(a, b) ==
    IF a = 0 \/ b = 0 THEN 0
    ELSE (a % 2) * (b % 2) + 2 * BitAnd(a \div 2, b \div 2)

RECURSIVE BitOr(_, _)
BitOr(a, b) ==
    IF a = 0 THEN b
    ELSE IF b = 0 THEN a
    ELSE (IF a % 2 = 1 \/ b % 2 = 1 THEN 1 ELSE 0) + 2 * BitOr(a \div 2, b \div 2)

uint8_t(x) == x % 256
uint16_t(x) == x % 65536
int16_t(x) == ((x + 32768) % 65536) - 32768
BoolInt(p) == IF p THEN 1 ELSE 0

(***************************************************************************)
(* TTEntry.                                                                *)
(***************************************************************************)
ZeroEntry ==
    [key16 |-> 0, depth8 |-> 0, genBound8 |-> 0, move16 |-> 0,
     value16 |-> 0, eval16 |-> 0]

\* uint16_t(k) of a fingerprint k: its low 16 bits
KeyFragment(k) == uint16_t(k.lo)

\* faulty variant of relative_age: 256 is added instead of GENERATION_CYCLE, so
\* that the bound and pv bits of genBound8 borrow from the generation
relative_age_NoPadding(e, generation8) ==
    uint8_t(BitAnd(256 + generation8 - e.genBound8, GENERATION_MASK))

\* TTEntry::relative_age
relative_age(e, generation8) ==
    uint8_t(BitAnd(GENERATION_CYCLE + generation8 - e.genBound8, GENERATION_MASK))

\* the accessors of TTEntry
EntryDepth(e) == e.depth8 + DEPTH_ENTRY_OFFSET
EntryIsPv(e) == BitAnd(e.genBound8, 4) # 0
EntryBound(e) == BitAnd(e.genBound8, 3)
EntryGeneration(e) == BitAnd(e.genBound8, GENERATION_MASK)

\* faulty variant of SaveMove: keeps the old move whenever no move is given, also
\* when the entry belongs to another position
SaveMove_IgnoreKey(e, k, m) ==
    IF m # MOVE_NONE THEN [e EXCEPT !.move16 = m] ELSE e

\* TTEntry::save, lines 42-44: preserve the old ttmove if we don't have a new one
SaveMove(e, k, m) ==
    IF m # MOVE_NONE \/ KeyFragment(k) # e.key16 THEN [e EXCEPT !.move16 = m] ELSE e

\* faulty variant of Overwrites: the depth test off by one (>= for >)
Overwrites_OffByOne(e, k, pv, b, d, generation8) ==
    \/ b = BOUND_EXACT
    \/ KeyFragment(k) # e.key16
    \/ d - DEPTH_ENTRY_OFFSET + 2 * BoolInt(pv) >= e.depth8 - 4
    \/ relative_age(e, generation8) # 0

\* faulty variant of Overwrites: the test for an exact bound is missing
Overwrites_NoExact(e, k, pv, b, d, generation8) ==
    \/ KeyFragment(k) # e.key16
    \/ d - DEPTH_ENTRY_OFFSET + 2 * BoolInt(pv) > e.depth8 - 4
    \/ relative_age(e, generation8) # 0

\* faulty variant of Overwrites: the age of the entry is not looked at
Overwrites_NoAge(e, k, pv, b, d, generation8) ==
    \/ b = BOUND_EXACT
    \/ KeyFragment(k) # e.key16
    \/ d - DEPTH_ENTRY_OFFSET + 2 * BoolInt(pv) > e.depth8 - 4

\* faulty variant of Overwrites: pv adds nothing to the depth of the new result
Overwrites_NoPv(e, k, pv, b, d, generation8) ==
    \/ b = BOUND_EXACT
    \/ KeyFragment(k) # e.key16
    \/ d - DEPTH_ENTRY_OFFSET > e.depth8 - 4
    \/ relative_age(e, generation8) # 0

\* faulty variant of Overwrites: depth8 - 4 is computed in 8 bits and wraps
\* below zero for the depths 0 .. 3
Overwrites_UnsignedDepth(e, k, pv, b, d, generation8) ==
    \/ b = BOUND_EXACT
    \/ KeyFragment(k) # e.key16
    \/ d - DEPTH_ENTRY_OFFSET + 2 * BoolInt(pv) > uint8_t(e.depth8 + 256 - 4)
    \/ relative_age(e, generation8) # 0

\* faulty variant of Overwrites: a margin of 5 plies instead of 4
Overwrites_WiderMargin(e, k, pv, b, d, generation8) ==
    \/ b = BOUND_EXACT
    \/ KeyFragment(k) # e.key16
    \/ d - DEPTH_ENTRY_OFFSET + 2 * BoolInt(pv) > e.depth8 - 5
    \/ relative_age(e, generation8) # 0

\* TTEntry::save, lines 47-48: the overwrite condition
Overwrites(e, k, pv, b, d, generation8) ==
    \/ b = BOUND_EXACT
    \/ KeyFragment(k) # e.key16
    \/ d - DEPTH_ENTRY_OFFSET + 2 * BoolInt(pv) > e.depth8 - 4
    \/ relative_age(e, generation8) # 0

\* faulty variant of SaveFields: value16 is not written
SaveFields_NoValue(e, k, v, pv, b, d, ev, generation8) ==
    [e EXCEPT !.key16 = KeyFragment(k),
              !.depth8 = uint8_t(d - DEPTH_ENTRY_OFFSET),
              !.genBound8 = uint8_t(BitOr(BitOr(generation8, BoolInt(pv) * 4), b)),
              !.eval16 = int16_t(ev)]

\* faulty variant of SaveFields: the depth is stored without the offset
SaveFields_NoOffset(e, k, v, pv, b, d, ev, generation8) ==
    [e EXCEPT !.key16 = KeyFragment(k),
              !.depth8 = uint8_t(d),
              !.genBound8 = uint8_t(BitOr(BitOr(generation8, BoolInt(pv) * 4), b)),
              !.value16 = int16_t(v),
              !.eval16 = int16_t(ev)]

\* TTEntry::save, lines 53-57: the fields written when the entry is overwritten
SaveFields(e, k, v, pv, b, d, ev, generation8) ==
    [e EXCEPT !.key16 = KeyFragment(k),
              !.depth8 = uint8_t(d - DEPTH_ENTRY_OFFSET),
              !.genBound8 = uint8_t(BitOr(BitOr(generation8, BoolInt(pv) * 4), b)),
              !.value16 = int16_t(v),
              !.eval16 = int16_t(ev)]

\* TTEntry::save
save(e, k, v, pv, b, d, m, ev, generation8) ==
    LET e1 == SaveMove(e, k, m)
    IN  IF Overwrites(e1, k, pv, b, d, generation8)
        THEN SaveFields(e1, k, v, pv, b, d, ev, generation8)
        ELSE e1

(***************************************************************************)
(* Fingerprints and TranspositionTable::first_entry.                       *)
(***************************************************************************)
Fragments == {0, 1}
Keys == [hi : 0 .. 2 ^ HiBits - 1, lo : Fragments]

\* mul_hi64(a, b): the high 64 bits of the 128-bit product a * b.  For a
\* fingerprint a = hi * 2^(64 - HiBits) + lo with lo < 2^16 and b < 2^(48 - HiBits)
\* the product is hi * b * 2^(64 - HiBits) + lo * b with lo * b < 2^(64 - HiBits),
\* so its high word is (hi * b) \div 2^HiBits.
mul_hi64(a, b) == (a.hi * b) \div 2 ^ HiBits

\* faulty variant of first_entry: the fingerprint modulo the cluster count
first_entry_Modulo(key, count) == (key.hi * 65536 + key.lo) % count

\* first_entry(key): the index of the cluster that owns key
first_entry(key, count) == mul_hi64(key, count)

(***************************************************************************)
(* State.                                                                  *)
(***************************************************************************)
VARIABLES
    table,          \* Cluster* table: cluster index -> slot -> TTEntry; <<>> when null
    clusterCount,   \* size_t clusterCount
    generation8,    \* uint8_t generation8
    pc,             \* where the caller of resize/clear is: idle, dispatch, wait, exited
    loop,           \* the index i of the running loop of clear
    threadCount,    \* threads.num_threads() of the running clear
    task,           \* per worker thread: idle, queued, done
    tte,            \* the entry the last probe returned, its key and found flag
    last,           \* the last operation, its arguments and the entry before it
    nsaves, nsearches, nclears,
    saving          \* per search thread: the save call it is in and how far it got

vars == <<table, clusterCount, generation8, pc, loop, threadCount, task,
          tte, last, nsaves, nsearches, nclears, saving>>

Slots == 0 .. ClusterSize - 1
Threads == 0 .. MaxThreads - 1
ZeroCluster == [i \in Slots |-> ZeroEntry]

\* what uninitialised memory may hold besides zero
JunkEntry ==
    [key16 |-> 1, depth8 |-> 200, genBound8 |-> 255, move16 |-> 4660,
     value16 |-> -1, eval16 |-> -1]
JunkCluster == [i \in Slots |-> JunkEntry]

NullTable == [c \in {} |-> ZeroCluster]

NoEntry == [key |-> [hi |-> 0, lo |-> 0], c |-> -1, i |-> -1, found |-> FALSE]
NoOp == [op |-> "none"]
NoSave == [at |-> "idle"]

Allocated == pc # "exited" /\ clusterCount > 0 /\ DOMAIN table = 0 .. clusterCount - 1

Init ==
    /\ table = NullTable
    /\ clusterCount = 0
    /\ generation8 = 0
    /\ pc = "idle"
    /\ loop = 0
    /\ threadCount = 0
    /\ task = [t \in Threads |-> "idle"]
    /\ tte = NoEntry
    /\ last = NoOp
    /\ nsaves = 0
    /\ nsearches = 0
    /\ nclears = 0
    /\ saving = [t \in Threads |-> NoSave]

(***************************************************************************)
(* TranspositionTable::probe.                                              *)
(***************************************************************************)
\* faulty variant of ScanMatch: the last matching slot instead of the first
RECURSIVE ScanMatch_Last(_, _, _)
ScanMatch_Last(cl, key16, i) ==
    IF i = ClusterSize THEN -1
    ELSE LET r == ScanMatch_Last(cl, key16, i + 1)
         IN  IF r # -1 THEN r
             ELSE IF cl[i].key16 = key16 THEN i ELSE -1

\* lines 127-129: the first slot from i on whose key16 is the fragment, or -1
RECURSIVE ScanMatch(_, _, _)
ScanMatch(cl, key16, i) ==
    IF i = ClusterSize THEN -1
    ELSE IF cl[i].key16 = key16 THEN i
    ELSE ScanMatch(cl, key16, i + 1)

\* lines 134-135: the replace value of an entry
ReplaceValue(e, gen) == e.depth8 - relative_age(e, gen) * 2

\* faulty variant of ScanReplace: >= for >, so that ties go to the later slot
RECURSIVE ScanReplace_TiesLast(_, _, _, _)
ScanReplace_TiesLast(cl, gen, i, r) ==
    IF i = ClusterSize THEN r
    ELSE ScanReplace_TiesLast(cl, gen, i + 1,
                              IF ReplaceValue(cl[r], gen) >= ReplaceValue(cl[i], gen)
                              THEN i ELSE r)

\* lines 132-136: the slot to be replaced, scanning from slot i with candidate r
RECURSIVE ScanReplace(_, _, _, _)
ScanReplace(cl, gen, i, r) ==
    IF i = ClusterSize THEN r
    ELSE ScanReplace(cl, gen, i + 1,
                     IF ReplaceValue(cl[r], gen) > ReplaceValue(cl[i], gen) THEN i ELSE r)

\* faulty variant of probe: found is set on every fragment match, without the
\* test of depth8
probe_FoundOnMatch(cl, key, gen) ==
    LET m == ScanMatch(cl, KeyFragment(key), 0)
    IN  IF m # -1
        THEN [i |-> m, found |-> TRUE]
        ELSE [i |-> ScanReplace(cl, gen, 1, 0), found |-> FALSE]

\* probe(key, found): the slot returned and the found flag
probe(cl, key, gen) ==
    LET m == ScanMatch(cl, KeyFragment(key), 0)
    IN  IF m # -1
        THEN [i |-> m, found |-> cl[m].depth8 # 0]
        ELSE [i |-> ScanReplace(cl, gen, 1, 0), found |-> FALSE]

Probe(key) ==
    /\ pc = "idle"
    /\ Allocated
    /\ LET c == first_entry(key, clusterCount)
           r == probe(table[c], key, generation8)
       IN  /\ tte' = [key |-> key, c |-> c, i |-> r.i, found |-> r.found]
           /\ last' = [op |-> "probe", key |-> key, c |-> c, i |-> r.i,
                       found |-> r.found,
                       afterSave |-> last.op = "save" /\ last.key = key]
    /\ UNCHANGED <<table, clusterCount, generation8, pc, loop, threadCount, task,
                   nsaves, nsearches, nclears,
                   saving>>

(***************************************************************************)
(* TTEntry::save on the entry a probe returned, with the probed key and    *)
(* the table's generation.  The number of saves, nsaves, is kept by the    *)
(* specifications that bound it.                                           *)
(***************************************************************************)
Values == {17, -200}
Evals == {5}
Depths == {6, 9, 10}
Bounds == {BOUND_UPPER, BOUND_LOWER, BOUND_EXACT}
Moves == {MOVE_NONE, 796}

Save(v, pv, b, d, m, ev) ==
    /\ pc = "idle"
    /\ Allocated
    /\ tte.c # -1
    /\ LET e == table[tte.c][tte.i]
       IN  /\ table' = [table EXCEPT ![tte.c][tte.i] =
                            save(e, tte.key, v, pv, b, d, m, ev, generation8)]
           /\ last' = [op |-> "save", key |-> tte.key, c |-> tte.c, i |-> tte.i,
                       v |-> v, pv |-> pv, b |-> b, d |-> d, m |-> m, ev |-> ev,
                       gen |-> generation8, pre |-> e]
    /\ UNCHANGED <<clusterCount, generation8, pc, loop, threadCount, task,
                   tte, nsearches, nclears,
                   saving>>

\* TranspositionTable::new_search: generation8 += GENERATION_DELTA
NewSearch ==
    /\ pc = "idle"
    /\ Allocated
    /\ generation8' = uint8_t(generation8 + GENERATION_DELTA)
    /\ last' = [op |-> "new_search"]
    /\ nsearches' = nsearches + 1
    /\ UNCHANGED <<table, clusterCount, pc, loop, threadCount, task, tte,
                   nsaves, nclears,
                   saving>>

(***************************************************************************)
(* TranspositionTable::resize and TranspositionTable::clear.               *)
(***************************************************************************)
\* faulty variant of ClusterCountFor: the division rounds up
ClusterCountFor_RoundUp(mbSize) ==
    (mbSize * MbBytes + SizeofCluster - 1) \div SizeofCluster

\* line 80
ClusterCountFor(mbSize) == (mbSize * MbBytes) \div SizeofCluster

\* faulty variant of Stride: the division rounds up
Stride_RoundUp(count, n) == (count + n - 1) \div n

\* lines 103-105: the stride of worker i among n workers over count clusters
Stride(count, n) == count \div n
StrideStart(count, n, i) == Stride(count, n) * i
\* faulty variant of StrideLen: the last worker does not take the remainder
StrideLen_NoRemainder(count, n, i) == Stride(count, n)

StrideLen(count, n, i) ==
    IF i + 1 # n THEN Stride(count, n) ELSE count - StrideStart(count, n, i)

\* lines 78-82 and 90, 97: the allocation succeeds; the block holds anything
ResizeAlloc(mbSize, n) ==
    /\ pc = "idle"
    /\ clusterCount' = ClusterCountFor(mbSize)
    /\ table' \in {[c \in 0 .. ClusterCountFor(mbSize) - 1 |-> cl] :
                       cl \in {ZeroCluster, JunkCluster}}
    /\ threadCount' = n
    /\ pc' = "dispatch"
    /\ loop' = 0
    /\ tte' = NoEntry
    /\ last' = [op |-> "resize", mbSize |-> mbSize, n |-> n, alloc |-> TRUE,
                done |-> FALSE]
    /\ nclears' = nclears + 1
    /\ UNCHANGED <<generation8, task, nsaves, nsearches,
                   saving>>

\* faulty variant of ResizeFail: the failure is reported but the process goes on
\* to clear(threads)
ResizeFail_NoExit(mbSize) ==
    /\ pc = "idle"
    /\ clusterCount' = ClusterCountFor(mbSize)
    /\ table' = NullTable
    /\ threadCount' = 1
    /\ pc' = "dispatch"
    /\ loop' = 0
    /\ tte' = NoEntry
    /\ last' = [op |-> "resize", mbSize |-> mbSize, n |-> 0, alloc |-> FALSE,
                done |-> FALSE]
    /\ nclears' = nclears + 1
    /\ UNCHANGED <<generation8, task, nsaves, nsearches,
                   saving>>

\* lines 78-88: the allocation fails, exit(EXIT_FAILURE)
ResizeFail(mbSize) ==
    /\ pc = "idle"
    /\ clusterCount' = ClusterCountFor(mbSize)
    /\ table' = NullTable
    /\ pc' = "exited"
    /\ tte' = NoEntry
    /\ last' = [op |-> "resize", mbSize |-> mbSize, n |-> 0, alloc |-> FALSE,
                done |-> FALSE]
    /\ nclears' = nclears + 1
    /\ UNCHANGED <<generation8, loop, threadCount, task, nsaves, nsearches,
                   saving>>

\* line 97: clear(threads) called on its own
Clear(n) ==
    /\ pc = "idle"
    /\ Allocated
    /\ threadCount' = n
    /\ pc' = "dispatch"
    /\ loop' = 0
    /\ tte' = NoEntry
    /\ last' = [op |-> "clear", n |-> n, done |-> FALSE]
    /\ nclears' = nclears + 1
    /\ UNCHANGED <<table, clusterCount, generation8, task, nsaves, nsearches,
                   saving>>

\* lines 99-109: threads.run_on_thread(i, ...)
Dispatch ==
    /\ pc = "dispatch"
    /\ task' = [task EXCEPT ![loop] = "queued"]
    /\ IF loop + 1 < threadCount
       THEN loop' = loop + 1 /\ pc' = pc
       ELSE loop' = 0 /\ pc' = "wait"
    /\ UNCHANGED <<table, clusterCount, generation8, threadCount, tte, last,
                   nsaves, nsearches, nclears,
                   saving>>

\* lines 101-108: the task of worker i: memset of its stride, then it returns
ZeroStride(t, count, n, i) ==
    [c \in DOMAIN t |->
        IF /\ c >= StrideStart(count, n, i)
           /\ c < StrideStart(count, n, i) + StrideLen(count, n, i)
        THEN ZeroCluster
        ELSE t[c]]

Worker(i) ==
    /\ task[i] = "queued"
    /\ table' = ZeroStride(table, clusterCount, threadCount, i)
    /\ task' = [task EXCEPT ![i] = "done"]
    /\ UNCHANGED <<clusterCount, generation8, pc, loop, threadCount, tte, last,
                   nsaves, nsearches, nclears,
                   saving>>

\* lines 111-112: threads.wait_on_thread(i); after the last one clear returns
Wait ==
    /\ pc = "wait"
    /\ task[loop] = "done"
    /\ IF loop + 1 < threadCount
       THEN /\ loop' = loop + 1
            /\ UNCHANGED <<pc, threadCount, task, last>>
       ELSE /\ loop' = 0
            /\ pc' = "idle"
            /\ threadCount' = 0
            /\ task' = [t \in Threads |-> "idle"]
            /\ last' = [last EXCEPT !.done = TRUE]
    /\ UNCHANGED <<table, clusterCount, generation8, tte, nsaves, nsearches,
                   nclears,
                   saving>>

\* the steps of a running clear
ClearSteps ==
    \/ Dispatch
    \/ \E i \in Threads : Worker(i)
    \/ Wait

(***************************************************************************)
(* TranspositionTable::hashfull.                                           *)
(***************************************************************************)
\* faulty variant of Counts: the generation of the entry is not looked at
Counts_AnyGeneration(e, gen) == e.depth8 # 0

\* lines 150-151: the entry adds one to cnt
Counts(e, gen) == e.depth8 # 0 /\ BitAnd(e.genBound8, GENERATION_MASK) = gen

\* lines 147-151: cnt over the entries from slot j of cluster i on; mem is what
\* table[0], table[1], ... hold
RECURSIVE CountEntries(_, _, _, _)
CountEntries(mem, gen, i, j) ==
    IF i = HashfullSample THEN 0
    ELSE IF j = ClusterSize THEN CountEntries(mem, gen, i + 1, 0)
    ELSE BoolInt(Counts(mem[i][j], gen)) + CountEntries(mem, gen, i, j + 1)

\* line 153
hashfull(mem, gen) == CountEntries(mem, gen, 0, 0) \div ClusterSize

\* what the memory behind the end of the table may hold when it is read
BeyondClusters(gen) ==
    {ZeroCluster, JunkCluster,
     [i \in Slots |-> [JunkEntry EXCEPT !.genBound8 = gen]]}

\* hashfull(): the loop of line 148 runs over table[0] .. table[HashfullSample - 1]
\* whatever clusterCount is; a read behind the end of the table yields what the
\* memory there holds
Hashfull ==
    /\ pc = "idle"
    /\ Allocated
    /\ \E beyond \in BeyondClusters(generation8) :
          LET mem == [i \in 0 .. HashfullSample - 1 |->
                         IF i < clusterCount THEN table[i] ELSE beyond]
          IN  last' = [op |-> "hashfull", reads |-> DOMAIN mem,
                       result |-> hashfull(mem, generation8)]
    /\ UNCHANGED <<table, clusterCount, generation8, pc, loop, threadCount, task,
                   tte, nsaves, nsearches, nclears, saving>>

\* lines 145-148 on a table that ends before cluster HashfullSample - 1, when the
\* read behind its end faults: the process is killed
HashfullFault ==
    /\ pc = "idle"
    /\ Allocated
    /\ clusterCount < HashfullSample
    /\ pc' = "exited"
    /\ last' = [op |-> "hashfull", reads |-> 0 .. clusterCount, result |-> -1]
    /\ UNCHANGED <<table, clusterCount, generation8, loop, threadCount, task,
                   tte, nsaves, nsearches, nclears, saving>>

(***************************************************************************)
(* Search threads that save without synchronisation.  The update is not    *)
(* atomic (line 38): a save is the test and write of the move, the test of *)
(* lines 47-48 and one write per field of lines 53-57, and the steps of    *)
(* two threads interleave.  A read or write of one field is one step; a    *)
(* probe reads its cluster in one step.                                    *)
(***************************************************************************)
RaceThreads == 0 .. 1

\* the call of thread t: each thread saves its own position with its own data
RaceCall(t) ==
    [key |-> [hi |-> 0, lo |-> t + 1], v |-> 100 + t, pv |-> FALSE,
     b |-> BOUND_LOWER, d |-> 5 + t, m |-> 700 + t, ev |-> 50 + t]

RaceKeys == {RaceCall(t).key : t \in RaceThreads}

\* the order of the writes of lines 53-57, and what follows the last
AfterField(f) ==
    CASE f = "key16" -> "depth8"
      [] f = "depth8" -> "genBound8"
      [] f = "genBound8" -> "value16"
      [] f = "value16" -> "eval16"
      [] f = "eval16" -> "done"

\* thread t probes its key and calls save on the entry returned
BeginSave(t) ==
    /\ pc = "idle"
    /\ Allocated
    /\ saving[t].at = "idle"
    /\ LET key == RaceCall(t).key
           c == first_entry(key, clusterCount)
           r == probe(table[c], key, generation8)
       IN  saving' = [saving EXCEPT ![t] =
                         [at |-> "move", c |-> c, i |-> r.i, gen |-> generation8]]
    /\ UNCHANGED <<table, clusterCount, generation8, pc, loop, threadCount, task,
                   tte, last, nsaves, nsearches, nclears>>

\* the next step of the save of thread t
SaveStep(t) ==
    /\ saving[t].at \notin {"idle", "done"}
    /\ LET s == saving[t]
           a == RaceCall(t)
           e == table[s.c][s.i]
       IN  CASE s.at = "move" ->
                  /\ table' = [table EXCEPT ![s.c][s.i] = SaveMove(e, a.key, a.m)]
                  /\ saving' = [saving EXCEPT ![t].at = "test"]
             [] s.at = "test" ->
                  /\ table' = table
                  /\ saving' = [saving EXCEPT ![t].at =
                                   IF Overwrites(e, a.key, a.pv, a.b, a.d, s.gen)
                                   THEN "key16" ELSE "done"]
             [] OTHER ->
                  /\ table' = [table EXCEPT ![s.c][s.i][s.at] =
                                  SaveFields(e, a.key, a.v, a.pv, a.b, a.d, a.ev,
                                             s.gen)[s.at]]
                  /\ saving' = [saving EXCEPT ![t].at = AfterField(s.at)]
    /\ UNCHANGED <<clusterCount, generation8, pc, loop, threadCount, task,
                   tte, last, nsaves, nsearches, nclears>>

(***************************************************************************)
(* Spec: the life of the table.  Every resize and clear with every pool    *)
(* size, probes of every fingerprint, a few saves that fill the table      *)
(* between two clears.                                                     *)
(***************************************************************************)
Next ==
    \/ \E key \in Keys : Probe(key)
    \/ /\ nsaves < MaxSaves
       /\ Save(17, FALSE, BOUND_LOWER, 10, 796, 5)
       /\ nsaves' = nsaves + 1
    \/ nsearches < MaxSearches /\ NewSearch
    \/ /\ nclears < MaxClears
       /\ \E mbSize \in 1 .. MaxMb, n \in 1 .. MaxThreads : ResizeAlloc(mbSize, n)
    \/ /\ nclears < MaxClears
       /\ \E mbSize \in 1 .. MaxMb : ResizeFail(mbSize)
    \/ nclears < MaxClears /\ \E n \in 1 .. MaxThreads : Clear(n)
    \/ ClearSteps

Spec == Init /\ [][Next]_vars

(***************************************************************************)
(* SpecSave: probes and saves of one fingerprint on a table of one         *)
(* cluster, any number of them, with every combination of the arguments    *)
(* of save.                                                                *)
(***************************************************************************)
SaveKeys == [hi : {0}, lo : {1}]

NextSave ==
    \/ \E key \in SaveKeys : Probe(key)
    \/ /\ \E v \in Values, pv \in BOOLEAN, b \in Bounds, d \in Depths, m \in Moves,
             ev \in Evals : Save(v, pv, b, d, m, ev)
       /\ UNCHANGED nsaves
    \/ nsearches < MaxSearches /\ NewSearch
    \/ nclears = 0 /\ ResizeAlloc(1, 1)
    \/ nclears = 0 /\ ResizeFail(1)
    \/ ClearSteps

SpecSave == Init /\ [][NextSave]_vars

(***************************************************************************)
(* SpecRepl: one cluster filled by saves of four fingerprints with         *)
(* different fragments, so that probe has to choose an entry to replace    *)
(* and save evicts an occupied entry.                                      *)
(***************************************************************************)
ReplKeys == [hi : {0}, lo : {0, 1, 2, 65535}]

ReplArgs == {[d |-> 10, m |-> 796], [d |-> 6, m |-> MOVE_NONE]}

NextRepl ==
    \/ \E key \in ReplKeys : Probe(key)
    \/ /\ nsaves < MaxSavesRepl
       /\ \E a \in ReplArgs : Save(17, FALSE, BOUND_LOWER, a.d, a.m, 5)
       /\ nsaves' = nsaves + 1
    \/ nsearches < MaxSearches /\ NewSearch
    \/ nclears = 0 /\ ResizeAlloc(1, 1)
    \/ nclears = 0 /\ ResizeFail(1)
    \/ ClearSteps

SpecRepl == Init /\ [][NextRepl]_vars

(***************************************************************************)
(* SpecFull: hashfull on a table smaller than the sample and on the        *)
(* smallest table that holds the sample, filled by saves of fingerprints   *)
(* of every cluster in one generation or two.                              *)
(***************************************************************************)
FullKeys == [hi : 0 .. 2 ^ HiBits - 1, lo : {1}]

\* the least size whose table holds the clusters hashfull samples
FullMb ==
    CHOOSE m \in 1 .. HashfullSample :
        /\ ClusterCountFor(m) >= HashfullSample
        /\ \A k \in 1 .. m - 1 : ClusterCountFor(k) < HashfullSample

NextFull ==
    \/ \E key \in FullKeys : Probe(key)
    \/ Save(17, FALSE, BOUND_LOWER, 10, 796, 5) /\ UNCHANGED nsaves
    \/ nsearches = 0 /\ NewSearch
    \/ nclears = 0 /\ \E mbSize \in {1, FullMb} : ResizeAlloc(mbSize, 1)
    \/ ClearSteps
    \/ Hashfull
    \/ HashfullFault

SpecFull == Init /\ [][NextFull]_vars

(***************************************************************************)
(* SpecAge: the generation counter starts anywhere in its cycle; one       *)
(* result is saved, then the generation advances, up to once more than it  *)
(* takes to come round, and a second save may follow.  The entry of the    *)
(* first save is nsearches generations old.                                *)
(***************************************************************************)
GenerationsPerCycle == 256 \div GENERATION_DELTA

Generations == {uint8_t(n * GENERATION_DELTA) : n \in 0 .. GenerationsPerCycle - 1}

AgeKeys == [hi : {0}, lo : {1, 2}]

InitAge ==
    /\ table = NullTable
    /\ clusterCount = 0
    /\ generation8 \in Generations
    /\ pc = "idle"
    /\ loop = 0
    /\ threadCount = 0
    /\ task = [t \in Threads |-> "idle"]
    /\ tte = NoEntry
    /\ last = NoOp
    /\ nsaves = 0
    /\ nsearches = 0
    /\ nclears = 0
    /\ saving = [t \in Threads |-> NoSave]

NextAge ==
    \/ \E key \in AgeKeys : Probe(key)
    \/ /\ nsaves = 0
       /\ \E pv \in BOOLEAN, b \in Bounds : Save(17, pv, b, 10, 796, 5)
       /\ nsaves' = 1
    \/ /\ nsaves = 1
       /\ nsearches <= GenerationsPerCycle
       /\ NewSearch
    \/ /\ nsaves = 1
       /\ nsearches > 0
       /\ \E b \in {BOUND_UPPER, BOUND_EXACT} : Save(-200, FALSE, b, 6, MOVE_NONE, 5)
       /\ nsaves' = 2
    \/ nclears = 0 /\ ResizeAlloc(1, 1)
    \/ ClearSteps

SpecAge == InitAge /\ [][NextAge]_vars

(***************************************************************************)
(* SpecRace: two threads save one position each into a table of one        *)
(* cluster while the cluster is probed.                                    *)
(***************************************************************************)
NextRace ==
    \/ \E key \in RaceKeys : Probe(key)
    \/ \E t \in RaceThreads : BeginSave(t)
    \/ \E t \in RaceThreads : SaveStep(t)
    \/ nclears = 0 /\ ResizeAlloc(1, 1)
    \/ ClearSteps

SpecRace == Init /\ [][NextRace]_vars

(***************************************************************************)
(* Properties.                                                             *)
(***************************************************************************)
AllZero == Allocated /\ \A c \in DOMAIN table : table[c] = ZeroCluster

\* the entry the last probe or save worked on
LastEntry == table[last.c][last.i]

\* the slots of cluster cl whose key fragment is that of key
Matching(cl, key) == {i \in Slots : cl[i].key16 = KeyFragment(key)}

\* probe reports not found for every fingerprint
AllProbesMiss(t, count, gen) ==
    \A key \in Keys : ~probe(t[first_entry(key, count)], key, gen).found

\* C1: on a table whose entries are all zero, probe reports found = false for
\* every fingerprint and every generation, also for a fingerprint whose low 16
\* bits are 0 and so match the key fragment of an empty entry.
C1_ProbeOnClearedTable ==
    (last.op = "probe" /\ AllZero) => (~last.found /\ ~tte.found)

C1_Witness ==
    /\ last.op = "probe"
    /\ AllZero
    /\ KeyFragment(last.key) = 0
    /\ last.c > 0
    /\ generation8 # 0
    /\ ~last.found

\* a step that probes the key saved, with a move, by the operation before it
ProbeAfterSave ==
    /\ last.op = "save"
    /\ last.m # MOVE_NONE
    /\ last'.op = "probe"
    /\ last'.key = last.key

\* the depth, value, bound and pv of entry e are those of the save call a
HoldsSaved(e, a) ==
    /\ EntryDepth(e) = a.d
    /\ e.value16 = a.v
    /\ EntryBound(e) = a.b
    /\ EntryIsPv(e) = a.pv

\* the condition of lines 47-48 on the entry a save call a found, spelled out
SaveReplaces(a) ==
    \/ a.b = BOUND_EXACT
    \/ a.pre.key16 # a.key.lo % 65536
    \/ a.d - DEPTH_ENTRY_OFFSET + 2 * BoolInt(a.pv) > a.pre.depth8 - 4
    \/ (a.pre.genBound8 \div 8) * 8 # a.gen

\* C2 as stated: save followed by probe(K) reports found = true and returns an
\* entry whose depth, value, bound, pv and move are those the save supplied.
C2_AsStated ==
    [][ProbeAfterSave =>
          /\ last'.found
          /\ HoldsSaved(table'[last'.c][last'.i], last)
          /\ table'[last'.c][last'.i].move16 = last.m]_vars

\* C2, amended: save followed by probe(K) reports found = true and returns the
\* entry that was saved to, with the move of the save; its depth, value, bound
\* and pv are those of the save when the save replaced the entry (exact bound,
\* another fragment, new depth + 2 * pv > stored depth - 4, or an entry of
\* another generation), and those stored before otherwise.
C2_SaveThenProbe ==
    [][ProbeAfterSave =>
          /\ last'.found
          /\ last'.c = last.c /\ last'.i = last.i
          /\ table'[last'.c][last'.i].move16 = last.m
          /\ SaveReplaces(last) => HoldsSaved(table'[last'.c][last'.i], last)
          /\ ~SaveReplaces(last) =>
                /\ table'[last'.c][last'.i].depth8 = last.pre.depth8
                /\ table'[last'.c][last'.i].value16 = last.pre.value16
                /\ table'[last'.c][last'.i].genBound8 = last.pre.genBound8]_vars

\* a probe right after a save of its key finds the entry, which holds a result
\* of the current generation
C2_Witness ==
    /\ last.op = "probe"
    /\ last.afterSave
    /\ last.found
    /\ LastEntry.move16 # MOVE_NONE
    /\ EntryGeneration(LastEntry) = generation8
    /\ generation8 # 0

\* a save on an occupied entry of the same fragment, stored with bound LOWER
\* and depth 10 in the current generation, with bound LOWER and pv = false
SaveOnDepth10 ==
    /\ last.op = "save"
    /\ last.pre.key16 = KeyFragment(last.key)
    /\ EntryBound(last.pre) = BOUND_LOWER
    /\ EntryDepth(last.pre) = 10
    /\ EntryGeneration(last.pre) = last.gen
    /\ last.b = BOUND_LOWER
    /\ ~last.pv

\* the five fields of lines 53-57 are those of entry f
KeepsFields(e, f) ==
    /\ e.key16 = f.key16
    /\ e.depth8 = f.depth8
    /\ e.genBound8 = f.genBound8
    /\ e.value16 = f.value16
    /\ e.eval16 = f.eval16

\* the five fields of lines 53-57 are those of the save call a
HoldsCall(e, a) ==
    /\ e.key16 = a.key.lo % 65536
    /\ EntryDepth(e) = a.d
    /\ EntryBound(e) = a.b
    /\ EntryIsPv(e) = a.pv
    /\ EntryGeneration(e) = a.gen
    /\ e.value16 = a.v
    /\ e.eval16 = a.ev

\* C3 as stated: a save with depth 9 on the entry of depth 10 does not
\* overwrite: key fragment, depth, bound/pv/generation byte, value and static
\* eval keep their contents.
C3_AsStated ==
    (SaveOnDepth10 /\ last.d = 9) => KeepsFields(LastEntry, last.pre)

\* C3, amended: a save with depth 9 on the entry of depth 10 does overwrite
\* (9 > 10 - 4); the entry is kept when new depth + 2 * pv <= stored depth - 4,
\* as with depth 6 and pv = false: then key fragment, depth, bound/pv/generation
\* byte, value and static eval keep their contents.
C3_DepthMargin ==
    /\ (SaveOnDepth10 /\ last.d = 6) => KeepsFields(LastEntry, last.pre)
    /\ (SaveOnDepth10 /\ last.d = 9) => HoldsCall(LastEntry, last)

C3_Witness ==
    /\ SaveOnDepth10
    /\ last.d = 6
    /\ last.v # last.pre.value16
    /\ last.m # MOVE_NONE
    /\ last.m # last.pre.move16
    /\ LastEntry.move16 = last.m
    /\ LastEntry.value16 = last.pre.value16

\* C4: a save with bound EXACT always overwrites: afterwards key fragment,
\* depth, bound, pv, generation, value and static eval are those of the call.
C4_ExactOverwrites ==
    (last.op = "save" /\ last.b = BOUND_EXACT) => HoldsCall(LastEntry, last)

C4_Witness ==
    /\ last.op = "save"
    /\ last.b = BOUND_EXACT
    /\ last.pre.key16 = KeyFragment(last.key)
    /\ EntryDepth(last.pre) = 10
    /\ EntryGeneration(last.pre) = last.gen
    /\ last.d = 6
    /\ ~last.pv
    /\ last.v # last.pre.value16
    /\ HoldsCall(LastEntry, last)

C6_ProbeMatch ==
    (last.op = "probe" /\ Matching(table[last.c], last.key) # {}) =>
        /\ last.i \in Matching(table[last.c], last.key)
        /\ \A j \in Matching(table[last.c], last.key) : last.i <= j
        /\ last.found = (LastEntry.depth8 # 0)

\* two empty entries match fragment 0 behind an occupied one
C6_Witness ==
    /\ last.op = "probe"
    /\ Cardinality(Matching(table[last.c], last.key)) = 2
    /\ table[last.c][0].depth8 # 0
    /\ last.i = 1
    /\ ~last.found

\* depth8 - 2 * relative_age of slot j of cluster cl
Worth(cl, j, gen) == cl[j].depth8 - 2 * relative_age(cl[j], gen)

ClearReturns == pc = "wait" /\ pc' = "idle"

\* C8: for every cluster count and pool size, under every interleaving of the
\* workers, when clear returns every dispatched worker has finished its stride
\* and every entry of every cluster is zero, so that a probe issued afterwards
\* reports found = false for every key, whatever the table held before.
C8_ClearBarrier ==
    [][ClearReturns =>
          /\ \A i \in 0 .. threadCount - 1 : task[i] = "done"
          /\ AllZero'
          /\ AllProbesMiss(table', clusterCount', generation8')]_vars

\* clear with two workers has returned on a table of three clusters that held
\* saved entries
C8_Witness ==
    /\ last.op = "clear"
    /\ last.done
    /\ last.n = 2
    /\ clusterCount = 3
    /\ nsaves > 0
    /\ pc = "idle"
    /\ AllZero

\* C9: after resize(M, threads) has returned, clusterCount is
\* M * (bytes of a megabyte) / sizeof(Cluster) by integer division, no entry of
\* the previous table is visible and probe reports found = false for every key.
C9_Resize ==
    (last.op = "resize" /\ last.alloc /\ last.done) =>
        /\ clusterCount
              = (last.mbSize * MbBytes) \div (ClusterSize * SizeofTTEntry + ClusterPadding)
        /\ DOMAIN table = 0 .. clusterCount - 1
        /\ AllZero
        /\ AllProbesMiss(table, clusterCount, generation8)

\* a second resize, after entries were saved in the first table
C9_Witness ==
    /\ last.op = "resize"
    /\ last.alloc
    /\ last.done
    /\ last.mbSize = 2
    /\ clusterCount = 3
    /\ nclears = 2
    /\ nsaves > 0
    /\ pc = "idle"

\* C10: when the allocation inside resize fails the process terminates: the
\* previous storage is released, no clear is started, no worker is dispatched,
\* no other allocation is tried, and no operation follows.
C10_AllocFailure ==
    [][/\ pc # "exited"
       /\ (last'.op = "resize" /\ ~last'.alloc) =>
             /\ pc' = "exited"
             /\ table' = NullTable
             /\ clusterCount' = ClusterCountFor(last'.mbSize)
             /\ threadCount' = 0
             /\ \A t \in Threads : task'[t] = "idle"
             /\ ~last'.done]_vars

\* the allocation of a second resize fails, after entries were saved
C10_Witness ==
    /\ pc = "exited"
    /\ last.op = "resize"
    /\ ~last.alloc
    /\ nclears = 2
    /\ nsaves > 0
    /\ table = NullTable

\* the entries of the clusters hashfull samples that are occupied and carry the
\* current generation
FreshEntries ==
    {x \in (0 .. HashfullSample - 1) \X Slots :
        /\ table[x[1]][x[2]].depth8 # 0
        /\ (table[x[1]][x[2]].genBound8 \div 8) * 8 = generation8}

\* C11: on a table that holds the clusters it samples, hashfull returns
\* floor(N / ClusterSize), N the number of sampled entries with a depth field
\* other than zero and the current generation: 0 on an empty table, (number of
\* sampled clusters) / ClusterSize when exactly the first slot of each sampled
\* cluster holds such an entry, and never more than the number of sampled
\* clusters.
C11_Hashfull ==
    (last.op = "hashfull" /\ pc = "idle" /\ clusterCount >= HashfullSample) =>
        /\ last.result = Cardinality(FreshEntries) \div ClusterSize
        /\ last.result \in 0 .. HashfullSample
        /\ AllZero => last.result = 0
        /\ FreshEntries = (0 .. HashfullSample - 1) \X {0} =>
              last.result = HashfullSample \div ClusterSize

\* the first slot of every sampled cluster, and no other, holds an entry of the
\* current generation, saved after a generation advance
C11_Witness ==
    /\ last.op = "hashfull"
    /\ clusterCount >= HashfullSample
    /\ generation8 # 0
    /\ FreshEntries = (0 .. HashfullSample - 1) \X {0}
    /\ last.result = HashfullSample \div ClusterSize
    /\ last.result > 0

\* C12 as stated: on a table of fewer clusters than the sample hashfull reads
\* only clusters with index in [0, clusterCount).
C12_AsStated ==
    (last.op = "hashfull" /\ clusterCount < HashfullSample) =>
        last.reads \subseteq 0 .. clusterCount - 1

\* the occupied entries of the table
Occupied == {x \in (DOMAIN table) \X Slots : table[x[1]][x[2]].depth8 # 0}

\* C13: an entry stamped at generation g has, after k advances of the counter
\* with 0 <= k < (generations in a cycle), relativeAge k * GENERATION_DELTA,
\* which is 0 exactly when k = 0, whatever bound and pv bits share its byte and
\* also when the counter has wrapped below g; an entry just stamped has
\* relativeAge 0.
C13_RelativeAge ==
    /\ (nsaves = 1 /\ pc = "idle" /\ nsearches < GenerationsPerCycle) =>
          \A x \in Occupied :
             /\ relative_age(table[x[1]][x[2]], generation8)
                   = nsearches * GENERATION_DELTA
             /\ (relative_age(table[x[1]][x[2]], generation8) = 0) = (nsearches = 0)
    /\ (nsaves = 2 /\ last.op = "save") => relative_age(LastEntry, generation8) = 0

\* an entry with pv and both bound bits set, one advance short of a full cycle,
\* the counter wrapped below the generation of the entry
C13_Witness ==
    /\ nsaves = 1
    /\ nsearches = GenerationsPerCycle - 1
    /\ \E x \in Occupied :
          /\ BitAnd(table[x[1]][x[2]].genBound8, GENERATION_DELTA - 1) = 7
          /\ generation8 < EntryGeneration(table[x[1]][x[2]])
          /\ relative_age(table[x[1]][x[2]], generation8) = 248

\* C19: an occupied entry written k generation advances ago, 1 <= k <
\* (generations in a cycle), is not counted by hashfull, and a save on it
\* overwrites it whatever the bound, the depth and the key fragment.
C19_Stale ==
    /\ (nsaves = 1 /\ pc = "idle" /\ nsearches \in 1 .. GenerationsPerCycle - 1) =>
          \A x \in Occupied : ~Counts(table[x[1]][x[2]], generation8)
    /\ (/\ nsaves = 2
        /\ last.op = "save"
        /\ last.pre.depth8 # 0
        /\ nsearches \in 1 .. GenerationsPerCycle - 1) => HoldsCall(LastEntry, last)

\* a shallow save with bound UPPER of the same fingerprint replaces a deeper
\* entry that is one advance short of a full cycle old
C19_Witness ==
    /\ nsaves = 2
    /\ last.op = "save"
    /\ nsearches = GenerationsPerCycle - 1
    /\ last.pre.key16 = KeyFragment(last.key)
    /\ last.b = BOUND_UPPER
    /\ last.d - DEPTH_ENTRY_OFFSET + 2 * BoolInt(last.pv) <= last.pre.depth8 - 4
    /\ HoldsCall(LastEntry, last)

\* the order of two fingerprints as 64-bit numbers
FingerprintLeq(k1, k2) == k1.hi < k2.hi \/ (k1.hi = k2.hi /\ k1.lo <= k2.lo)

\* C14: for the cluster count a resize has set, a power of two or not, the
\* cluster index of a fingerprint lies in [0, clusterCount), does not decrease
\* when the fingerprint grows, and every index in [0, clusterCount) is the index
\* of some fingerprint; the cluster a probe looks at is the one whose share of
\* the high words holds the fingerprint.
C14_ClusterIndex ==
    /\ (last.op = "resize" /\ last.alloc) =>
          /\ \A k \in Keys : first_entry(k, clusterCount) \in 0 .. clusterCount - 1
          /\ \A k1, k2 \in Keys :
                FingerprintLeq(k1, k2) =>
                   first_entry(k1, clusterCount) <= first_entry(k2, clusterCount)
          /\ {first_entry(k, clusterCount) : k \in Keys} = 0 .. clusterCount - 1
    /\ (last.op = "probe" /\ pc = "idle") =>
          /\ last.c \in 0 .. clusterCount - 1
          /\ last.c \in DOMAIN table
          /\ last.c * 2 ^ HiBits <= last.key.hi * clusterCount
          /\ last.key.hi * clusterCount < (last.c + 1) * 2 ^ HiBits

\* a probe of the greatest fingerprint looks at the last cluster of a table of
\* three clusters
C14_Witness ==
    /\ last.op = "probe"
    /\ clusterCount = 3
    /\ last.key.hi = 2 ^ HiBits - 1
    /\ last.c = clusterCount - 1
    /\ \E k \in Keys : first_entry(k, clusterCount) = 1

\* C15: save overwrites key fragment, depth, bound/pv/generation byte, value and
\* static eval exactly when the bound is EXACT, or the fragment of the entry is
\* not that of the fingerprint, or new depth - DEPTH_ENTRY_OFFSET + 2 * pv >
\* stored depth field - 4, or the stored generation is not the current one;
\* otherwise the five fields are unchanged.
C15_OverwriteIff ==
    last.op = "save" =>
        IF SaveReplaces(last)
        THEN HoldsCall(LastEntry, last)
        ELSE KeepsFields(LastEntry, last.pre)

\* a save of the same fingerprint in the same generation, not EXACT, that
\* replaces the entry only because it is on the principal variation
C15_Witness ==
    /\ last.op = "save"
    /\ last.pre.key16 = KeyFragment(last.key)
    /\ EntryGeneration(last.pre) = last.gen
    /\ last.b # BOUND_EXACT
    /\ last.pv
    /\ last.d - DEPTH_ENTRY_OFFSET <= last.pre.depth8 - 4
    /\ last.v # last.pre.value16
    /\ HoldsCall(LastEntry, last)

\* the clusters the claim gives worker i: floor(clusterCount / T) of them from
\* i * floor(clusterCount / T) on, the last worker all that follow
ShareOf(i) ==
    {c \in 0 .. clusterCount - 1 :
        /\ c >= i * (clusterCount \div threadCount)
        /\ i = threadCount - 1 \/ c < (i + 1) * (clusterCount \div threadCount)}

\* C16: while clear runs with T workers, the strides are contiguous, pairwise
\* disjoint and cover [0, clusterCount) exactly, none reaches clusterCount or
\* beyond, workers 0 .. T-2 take floor(clusterCount / T) clusters each and the
\* last takes the rest; the step of a worker zeroes its stride and leaves every
\* other cluster as it was.
C16_Strides ==
    [][/\ pc \in {"dispatch", "wait"} =>
             /\ \A i \in 0 .. threadCount - 1 :
                   /\ StrideStart(clusterCount, threadCount, i)
                         = i * (clusterCount \div threadCount)
                   /\ StrideLen(clusterCount, threadCount, i) >= 0
                   /\ StrideStart(clusterCount, threadCount, i)
                         + StrideLen(clusterCount, threadCount, i) <= clusterCount
                   /\ i < threadCount - 1 =>
                         StrideLen(clusterCount, threadCount, i)
                            = clusterCount \div threadCount
                   /\ i = threadCount - 1 =>
                         StrideLen(clusterCount, threadCount, i)
                            = clusterCount - i * (clusterCount \div threadCount)
             /\ \A i, j \in 0 .. threadCount - 1 :
                   i # j => ShareOf(i) \cap ShareOf(j) = {}
             /\ UNION {ShareOf(i) : i \in 0 .. threadCount - 1} = 0 .. clusterCount - 1
       /\ \A i \in Threads :
             (task[i] = "queued" /\ task'[i] = "done") =>
                /\ DOMAIN table' = DOMAIN table
                /\ \A c \in DOMAIN table :
                      IF c \in ShareOf(i)
                      THEN table'[c] = ZeroCluster
                      ELSE table'[c] = table[c]]_vars

\* two workers on a table of one cluster that holds what the allocation left:
\* worker 0 is done and has written nothing
C16_Witness ==
    /\ pc = "wait"
    /\ threadCount = 2
    /\ clusterCount = 1
    /\ task[0] = "done"
    /\ task[1] = "queued"
    /\ table[0] = JunkCluster

\* C17: when no operation is running, an entry has depth field 0 exactly when
\* all of its fields are zero; every save leaves its entry with a depth field
\* other than zero, so that no move is stored in an entry whose depth field
\* stays 0.
C17_Occupancy ==
    /\ (pc = "idle" /\ Allocated) =>
          \A c \in DOMAIN table, i \in Slots :
             (table[c][i].depth8 = 0) = (table[c][i] = ZeroEntry)
    /\ last.op = "save" =>
          /\ LastEntry.depth8 # 0
          /\ LastEntry.depth8 \in 1 .. 255

\* a save with a move on an empty entry whose zero key fragment is that of the
\* fingerprint, in the generation the empty entry carries
C17_Witness ==
    /\ last.op = "save"
    /\ last.pre = ZeroEntry
    /\ KeyFragment(last.key) = 0
    /\ last.gen = 0
    /\ last.b # BOUND_EXACT
    /\ last.m # MOVE_NONE
    /\ LastEntry.move16 = last.m
    /\ LastEntry.depth8 # 0

\* C20: after a save with a bound other than EXACT, of the key fragment the
\* entry holds and in the generation the entry carries, the depth field is at
\* least (depth field before) - 3 - 2 * pv: a result is not replaced by one 4 or
\* more plies shallower, 6 or more when the new one is on the principal
\* variation.
C20_DepthProtection ==
    (/\ last.op = "save"
     /\ last.b # BOUND_EXACT
     /\ last.pre.key16 = KeyFragment(last.key)
     /\ EntryGeneration(last.pre) = last.gen) =>
        /\ LastEntry.depth8 >= last.pre.depth8 - 3 - 2 * BoolInt(last.pv)
        /\ LastEntry.depth8 < last.pre.depth8 =>
              /\ EntryDepth(LastEntry) = last.d
              /\ last.pre.depth8 - LastEntry.depth8 < 4 + 2 * BoolInt(last.pv)

\* a result on the principal variation replaces one that is 4 plies deeper
C20_Witness ==
    /\ last.op = "save"
    /\ last.b # BOUND_EXACT
    /\ last.pre.key16 = KeyFragment(last.key)
    /\ EntryGeneration(last.pre) = last.gen
    /\ last.pv
    /\ LastEntry.depth8 = last.pre.depth8 - 4
    /\ EntryDepth(LastEntry) = last.d

\* what the save call of thread t supplies for the fields of an entry
SuppliedBy(t) ==
    [key16 |-> RaceCall(t).key.lo,
     depth8 |-> RaceCall(t).d - DEPTH_ENTRY_OFFSET,
     genBound8 |-> generation8 + 4 * BoolInt(RaceCall(t).pv) + RaceCall(t).b,
     move16 |-> RaceCall(t).m,
     value16 |-> RaceCall(t).v,
     eval16 |-> RaceCall(t).ev]

\* C18: while threads save into the same entry without synchronisation, no
\* step of a save and no probe waits for another thread, and every field of
\* every entry holds zero or a value that some save call supplied.
C18_Race ==
    (pc = "idle" /\ Allocated) =>
        /\ \A t \in RaceThreads :
              /\ saving[t].at = "idle" => ENABLED BeginSave(t)
              /\ saving[t].at \notin {"idle", "done"} => ENABLED SaveStep(t)
        /\ \A key \in RaceKeys : ENABLED Probe(key)
        /\ \A c \in DOMAIN table, i \in Slots :
              \A f \in DOMAIN ZeroEntry :
                 table[c][i][f] \in {0} \cup {SuppliedBy(t)[f] : t \in RaceThreads}

\* both saves have returned; the entry carries the key fragment of thread 0
\* with the depth, value and bound thread 1 supplied, and the probe of the key
\* of thread 0 reports it found
C18_Witness ==
    /\ \A t \in RaceThreads : saving[t].at = "done"
    /\ last.op = "probe"
    /\ last.key = RaceCall(0).key
    /\ last.found
    /\ probe(table[last.c], last.key, generation8) = [i |-> last.i, found |-> TRUE]
    /\ LastEntry.key16 = KeyFragment(RaceCall(0).key)
    /\ LastEntry.value16 = RaceCall(1).v
    /\ EntryDepth(LastEntry) = RaceCall(1).d
    /\ LastEntry.eval16 = RaceCall(1).ev

====
